---- MODULE Spec2Model ----
(***************************************************************************)
(* A model of the avalonc lexer (src/src/lexer/lexer.c).                   *)
(*                                                                         *)
(* The source text is a sequence of one-character strings followed by the  *)
(* terminating NUL byte.  Offsets are 0-based as in the C code: the        *)
(* character at offset k is source[k+1], offset Len(source) holds the NUL. *)
(* The fields of struct Lexer are the fields of the record `lexer'; every  *)
(* C function is an operator from a lexer record to a lexer record (and a  *)
(* token where the function returns one).  The parser constructor          *)
(* (src/src/parser/parser.c) and the name and path transforms              *)
(* (src/src/common/fqn.c) are modelled on top of it, and beside them the   *)
(* names of the token kinds (src/src/common/token_type.c) and the stack    *)
(* and vector containers (src/src/utils/stack.c, src/src/utils/vector.c).  *)
(***************************************************************************)
EXTENDS Integers, Sequences, FiniteSets, TLC

\* source: the text handed to newLexer; lexer: struct Lexer; tokens: the tokens
\* returned so far; prev: struct Lexer as it was before the last call;
\* status: whether the process is still running; parser: the last call of
\* newParser and the struct Parser it built; fqn: a text and the name and path
\* transforms applied to it; render: a token kind and the name that
\* tokenTypeToString gave for it; stack: a struct Stack or struct SizeTStack
\* and the last operation on it; vector: a struct Vector and the last
\* operation on it
VARIABLES source, lexer, tokens, prev, status, parser, fqn, render, stack, vector

vars == <<source, lexer, tokens, prev, status, parser, fqn, render, stack, vector>>

(* Bounds of the model *)

\* lines after the first line of an indentation-structured source
MaxLines == 2
\* the same for the sources with deeper block structure
DeepLines == 3
\* longest source drawn from an alphabet
MaxLen == 6
\* widest indentation run of a generated line
MaxIndent == 3
\* width of size_t in the model: counters wrap modulo 2^SizeBits
SizeBits == 4
\* longest source drawn from the alphabet of numeric literals
MaxLiteral == 4
\* longest source drawn from the alphabet of brackets
MaxBrackets == 4
\* longest source drawn from the alphabet of operators
MaxOperators == 5
\* longest text behind the open marker of a block comment
MaxNested == 7
\* lexToken calls still made after EOF has been returned
MaxEofCalls == 2
\* characters that follow a reserved word in a word source
MaxExtension == 1
\* longest source drawn from the alphabet of names
MaxName == 4
\* longest run of digits in a generated numeric literal
MaxDigits == 2
\* longest text handed to the name and path transforms
MaxPath == 3
\* transforms applied in a row to one text
MaxTransforms == 2
MaxBlockLines == 4
MaxBlockIndent == 2
\* largest initial size of a stack
MaxStack == 3
\* largest initial capacity of a vector
MaxCapacity == 3
\* number of distinct elements handed to a container
MaxElement == 2
\* calls of vectorPushback on one vector
MaxPushes == 4

\* sizeof(*stack -> elements), and the factor 1.75 of stackPush in hundredths
ElementSize == 8
StackGrowth == 175

\* the capacity that vectorPushback asks vectorResize for
GrownCapacity == 2

SizeMod == 2 ^ SizeBits

(* Characters *)

NUL == "NUL"

LowerLetters ==
    {"a","b","c","d","e","f","g","h","i","j","k","l","m",
     "n","o","p","q","r","s","t","u","v","w","x","y","z"}

UpperLetters ==
    {"A","B","C","D","E","F","G","H","I","J","K","L","M",
     "N","O","P","Q","R","S","T","U","V","W","X","Y","Z"}

isDigit(c) ==
    \/ c \in {"0","1","2","3","4","5","6","7","8","9"}
    \/ c \in {"A","B","C","D","E","F"}

isLetter(c) == c \in LowerLetters \/ c \in UpperLetters

isAlpha(c) == c \in LowerLetters \/ c \in UpperLetters \/ c = "_"

(* Source cursor *)

\* *(source + off); the byte after the terminating NUL is read as NUL in
\* the outcome where the out-of-bounds read does not fault (see LexToken)
CharAt(off) == IF off < Len(source) THEN source[off + 1] ELSE NUL

isAtStart(l) == CharAt(l.current) = CharAt(0)

isAtEnd(l) == CharAt(l.current) = NUL

advance(l) == [l EXCEPT !.current = @ + 1, !.column = @ + 1]

peek(l) == CharAt(l.current)

peekNext(l) == IF isAtEnd(l) THEN NUL ELSE CharAt(l.current + 1)

peekBack(l) == IF isAtStart(l) THEN NUL ELSE CharAt(l.current - 1)

\* match() as a test; the consuming half is advance()
match(l, expected) == ~isAtEnd(l) /\ CharAt(l.current) = expected

\* size_t decrement
SizeDec(x) == (x + SizeMod - 1) % SizeMod

(* Token factory *)

makeToken(l, type) ==
    [type |-> type, start |-> l.start, length |-> l.current - l.start,
     line |-> l.line, column |-> l.column, message |-> ""]

\* the span of an error token is the message, not a part of the source
errorToken(l, message) ==
    [type |-> "ERROR", start |-> -1, length |-> 0,
     line |-> l.line, column |-> l.column, message |-> message]

Ret(l, t) == [lexer |-> l, token |-> t, exited |-> FALSE]

(* Comment skipper *)

RECURSIVE SingleCommentLoop(_)
SingleCommentLoop(l) ==
    IF peek(l) # "\n" /\ ~isAtEnd(l) THEN SingleCommentLoop(advance(l)) ELSE l

skipSingleComment(l) ==
    LET l1 == SingleCommentLoop(l)
    IN  IF peek(l1) = "\n" /\ ~isAtEnd(l1)
        THEN [advance(l1) EXCEPT !.line = @ + 1, !.column = 1]
        ELSE l1

\* the while loop of skipMultiComment; r = [lexer, levels, terminated]
RECURSIVE MultiCommentLoop(_)
MultiCommentLoop(r) ==
    IF isAtEnd(r.lexer) THEN r
    ELSE
      LET l0 == r.lexer
          lv1 == IF peek(l0) = "-" /\ peekNext(l0) = "[" THEN r.levels + 1 ELSE r.levels
          closing == peek(l0) = "]" /\ peekNext(l0) = "-"
          l1 == IF closing THEN advance(advance(l0)) ELSE l0
      IN  IF closing /\ lv1 = 0
          THEN [lexer |-> l1, levels |-> lv1, terminated |-> TRUE]
          ELSE
            LET lv2 == IF closing THEN lv1 - 1 ELSE lv1
                l2 == IF peek(l1) = "\n"
                      THEN [l1 EXCEPT !.line = @ + 1, !.column = 1]
                      ELSE l1
            IN  MultiCommentLoop([lexer |-> advance(l2), levels |-> lv2,
                                  terminated |-> FALSE])

\* a skipMultiComment that consumes the newline behind the comment without
\* counting the line
skipMultiCommentLosingLine(l) ==
    LET r == MultiCommentLoop([lexer |-> l, levels |-> 0, terminated |-> FALSE])
        l1 == r.lexer
    IN  IF peek(l1) = "\n" /\ ~isAtEnd(l1)
        THEN [advance(l1) EXCEPT !.column = 1]
        ELSE l1

skipMultiComment(l) ==
    LET r == MultiCommentLoop([lexer |-> l, levels |-> 0, terminated |-> FALSE])
        l1 == r.lexer
    IN  IF peek(l1) = "\n" /\ ~isAtEnd(l1)
        THEN [advance(l1) EXCEPT !.line = @ + 1, !.column = 1]
        ELSE l1

RECURSIVE skipWhitespace(_)
skipWhitespace(l) ==
    LET c == peek(l)
    IN  IF c \in {"\r", "\t", " "} THEN skipWhitespace(advance(l))
        ELSE IF c = "-" /\ peekNext(l) = "-" THEN skipWhitespace(skipSingleComment(l))
        ELSE IF c = "-" /\ peekNext(l) = "[" THEN skipWhitespace(skipMultiComment(advance(l)))
        ELSE l

(* Indentation tracker *)

RECURSIVE WhitespaceRun(_, _)
WhitespaceRun(l, ch) ==
    IF peek(l) = ch THEN WhitespaceRun(advance(l), ch) ELSE l

\* lexer.c 685-695: the first indentation of the file fixes kind and unit
firstIndentation(l, is_space, whitespace_size) ==
    [l EXCEPT !.first_indentation_found = TRUE,
              !.is_first_indentation_space = is_space,
              !.first_indentation_line = l.line,
              !.first_indentation_size = whitespace_size,
              !.indentation_count = 1,
              !.last_indentation_size = whitespace_size]

\* a deeper indentation that also takes the new width as the unit
indentDeeperResettingUnit(l, whitespace_size) ==
    [l EXCEPT !.indentation_count = 1,
              !.first_indentation_size = whitespace_size,
              !.last_indentation_size = whitespace_size]

\* lexer.c 711-715: a run wider than the last one
indentDeeper(l, whitespace_size) ==
    [l EXCEPT !.indentation_count = whitespace_size \div l.first_indentation_size,
              !.last_indentation_size = whitespace_size]

\* lexer.c 717-723: a run narrower than the last one
dedentShallower(l, whitespace_size) ==
    LET new_whitespace == l.last_indentation_size - whitespace_size
    IN  [l EXCEPT !.dedentation_count =
                      SizeDec(new_whitespace \div l.first_indentation_size),
                  !.indentation_count = SizeDec(@),
                  !.last_indentation_size = whitespace_size]

\* lexer.c 644-649: empty when the kind is acceptable, else the error message
kindMismatch(l, is_space) ==
    IF l.first_indentation_found /\ is_space /\ ~l.is_first_indentation_space
    THEN "Indentation using tabulation is already is effect hence blank space cannot be used for the same."
    ELSE IF l.first_indentation_found /\ ~is_space /\ l.is_first_indentation_space
    THEN "Indentation using blank spaces is already is effect hence tabulation cannot be used for the same."
    ELSE ""

\* lexer.c 668-679: a run followed by a newline is an empty line
blankLine(l) ==
    LET l1 == advance(l)
    IN  Ret([l1 EXCEPT !.line = @ + 1, !.column = 1, !.ignore_whitespace = FALSE],
            makeToken(l1, "NEWLINE"))

\* lexer.c 696-723: a run measured against the established unit
measureIndentation(l, is_space, whitespace_size) ==
    IF whitespace_size % l.first_indentation_size # 0
    THEN Ret(l, errorToken(l,
               IF is_space
               THEN "Expected a valid indentation: the number of spaces that form a valid indentation must be a multiple of the number of spaces that form the first indentation."
               ELSE "Expected a valid indentation: the number of tabulations that form a valid indentation must be a multiple of the number of tabulations that form the first indentation."))
    ELSE IF whitespace_size = l.last_indentation_size
    THEN Ret(l, makeToken(l, "NO_INDENT"))
    ELSE IF whitespace_size > l.last_indentation_size
    THEN LET l1 == indentDeeper(l, whitespace_size)
         IN  Ret(l1, makeToken(l1, "INDENT"))
    ELSE LET l1 == dedentShallower(l, whitespace_size)
         IN  Ret(l1, makeToken(l1, "DEDENT"))

handleWhitespace(l0, is_space) ==
    IF l0.ignore_whitespace
    THEN Ret(l0, errorToken(l0, IF is_space THEN "Unexpected blank space."
                                             ELSE "Unexpected tabulation."))
    ELSE
      LET l1 == [l0 EXCEPT !.ignore_whitespace = TRUE]
      IN  IF kindMismatch(l1, is_space) # ""
          THEN Ret(l1, errorToken(l1, kindMismatch(l1, is_space)))
          ELSE
            LET l2 == WhitespaceRun(l1, IF is_space THEN " " ELSE "\t")
                whitespace_size == (l2.current - l1.current) + 1
            IN  IF peek(l2) = "\n" THEN blankLine(l2)
                ELSE IF ~l2.first_indentation_found
                THEN LET l3 == firstIndentation(l2, is_space, whitespace_size)
                     IN  Ret(l3, makeToken(l3, "INDENT"))
                ELSE measureIndentation(l2, is_space, whitespace_size)

(* Literal scanner: numbers *)

RECURSIVE DigitRun(_)
DigitRun(l) == IF isDigit(peek(l)) THEN DigitRun(advance(l)) ELSE l

\* lexer.c 296-345: the kind selected by (domain, fractional, format letter);
\* "ERROR" for the rejected integer formats, "EXIT" where no branch returns
\* and control reaches the exit(74) of lexer.c 365-366
formatKind(is_classical, is_decimal, format) ==
    IF is_classical /\ ~is_decimal THEN
        CASE format = "b" -> "CLASSICAL_BIT"
          [] format = "h" -> "CLASSICAL_HEX"
          [] format = "o" -> "CLASSICAL_OCT"
          [] format = "d" -> "CLASSICAL_INT"
          [] OTHER -> "ERROR"
    ELSE IF is_classical /\ is_decimal THEN
        CASE format = "f" -> "CLASSICAL_FLOAT"
          [] format = "d" -> "CLASSICAL_DEC"
          [] OTHER -> "EXIT"
    ELSE IF ~is_classical /\ ~is_decimal THEN
        CASE format = "b" -> "QUANTUM_BIT"
          [] format = "h" -> "QUANTUM_HEX"
          [] format = "o" -> "QUANTUM_OCT"
          [] format = "d" -> "QUANTUM_INT"
          [] OTHER -> "ERROR"
    ELSE
        CASE format = "f" -> "QUANTUM_FLOAT"
          [] format = "d" -> "QUANTUM_DEC"
          [] OTHER -> "EXIT"

\* lexer.c 347-361: no format letter
defaultKind(is_classical, is_decimal) ==
    IF is_classical /\ ~is_decimal THEN "CLASSICAL_INT"
    ELSE IF is_classical /\ is_decimal THEN "CLASSICAL_FLOAT"
    ELSE IF ~is_classical /\ ~is_decimal THEN "QUANTUM_INT"
    ELSE "QUANTUM_FLOAT"

number(l0) ==
    LET tagged == peekBack(l0) = "0" /\ (peek(l0) = "c" \/ peek(l0) = "q")
        malformed == /\ ~tagged
                     /\ peekBack(l0) = "0"
                     /\ isLetter(peek(l0))
                     /\ ~isDigit(peek(l0))
                     /\ peek(l0) # "c"
                     /\ peek(l0) # "q"
    IN  IF malformed
        THEN Ret(l0, errorToken(l0, "Expected <c> or <q> to indicate whether we have classical or quantum data."))
        ELSE
          LET is_classical == ~(tagged /\ peek(l0) = "q")
              l1 == IF tagged THEN advance(l0) ELSE l0
              l2 == DigitRun(l1)
              is_decimal == peek(l2) = "." /\ isDigit(peekNext(l2))
              l3 == IF is_decimal THEN DigitRun(advance(l2)) ELSE l2
              format == peek(l3)
          IN  IF isLetter(format)
              THEN LET l4 == advance(l3)
                       kind == formatKind(is_classical, is_decimal, format)
                   IN  IF kind = "EXIT"
                       THEN [lexer |-> l4, token |-> errorToken(l4, "[Lexer bug] We finished lexing a number but missed a case."), exited |-> TRUE]
                       ELSE IF kind = "ERROR"
                       THEN Ret(l4, errorToken(l4,
                                  IF is_classical
                                  THEN "Unexpected data format for classical integers. Valid formats for integers are: <b> for bits, <h> for hexadecimals, <o> for octals and <d> for base 10."
                                  ELSE "Unexpected data format for quantum integers. Valid formats for integers are: <b> for bits, <h> for hexadecimals, <o> for octals and <d> for base 10."))
                       ELSE Ret(l4, makeToken(l4, kind))
              ELSE Ret(l3, makeToken(l3, defaultKind(is_classical, is_decimal)))

(* Literal scanner: identifiers and keywords *)

RECURSIVE IdentifierRun(_)
IdentifierRun(l) ==
    IF isAlpha(peek(l)) \/ isDigit(peek(l)) THEN IdentifierRun(advance(l)) ELSE l

\* rest is the sequence of the characters of the C string
handleKeyword(l, start, length, rest, type) ==
    IF /\ l.current - l.start = start + length
       /\ \A i \in 1..length : CharAt(l.start + start + i - 1) = rest[i]
    THEN makeToken(l, type)
    ELSE makeToken(l, "IDENTIFIER")

\* lexer.c 381-617: the switch over the first characters of the lexeme
keywordSwitch(l) ==
    LET n == l.current - l.start
        s0 == CharAt(l.start)
        s1 == CharAt(l.start + 1)
        s2 == CharAt(l.start + 2)
        s3 == CharAt(l.start + 3)
        id == makeToken(l, "IDENTIFIER")
    IN  CASE s0 = "a" -> handleKeyword(l, 1, 2, <<"n","d">>, "LOGICAL_AND")
          [] s0 = "b" ->
               IF n > 1 THEN
                 CASE s1 = "a" -> handleKeyword(l, 2, 2, <<"n","d">>, "BITWISE_AND")
                   [] s1 = "n" -> handleKeyword(l, 2, 2, <<"o","t">>, "BITWISE_NOT")
                   [] s1 = "o" -> handleKeyword(l, 2, 1, <<"r">>, "BITWISE_OR")
                   [] s1 = "r" -> handleKeyword(l, 2, 3, <<"e","a","k">>, "BREAK")
                   [] OTHER -> id
               ELSE id
          [] s0 = "c" ->
               IF n > 1 THEN
                 CASE s1 = "a" ->
                        IF n <= 2 THEN id
                        ELSE IF s2 # "s" THEN id
                        ELSE IF n > 3 THEN
                          CASE s3 = "e" -> handleKeyword(l, 3, 1, <<"e">>, "CASE")
                            [] s3 = "t" -> handleKeyword(l, 3, 1, <<"t">>, "CAST")
                            [] OTHER -> id
                        ELSE id
                   [] s1 = "o" ->
                        IF n <= 2 THEN id
                        ELSE IF s2 # "n" THEN id
                        ELSE IF n > 3 THEN
                          CASE s3 = "s" -> handleKeyword(l, 4, 1, <<"t">>, "CONST")
                            [] s3 = "t" -> handleKeyword(l, 4, 4, <<"i","n","u","e">>, "CONTINUE")
                            [] OTHER -> id
                        ELSE id
                   [] OTHER -> id
               ELSE id
          [] s0 = "d" ->
               IF n > 1 THEN
                 CASE s1 = "e" ->
                        IF n <= 2 THEN id
                        ELSE IF s2 # "f" THEN id
                        ELSE IF n > 3 THEN
                          CASE s3 = "a" -> handleKeyword(l, 4, 3, <<"u","l","t">>, "DEFAULT")
                            [] s3 = "f" -> handleKeyword(l, 3, 1, <<"f">>, "DEF")
                            [] OTHER -> id
                        ELSE id
                   [] s1 = "r" -> handleKeyword(l, 2, 2, <<"e","f">>, "DREF")
                   [] OTHER -> id
               ELSE id
          [] s0 = "e" ->
               IF n > 1 THEN
                 CASE s1 = "l" ->
                        IF n > 2 THEN
                          CASE s2 = "i" -> handleKeyword(l, 3, 1, <<"f">>, "ELIF")
                            [] s2 = "s" -> handleKeyword(l, 3, 1, <<"e">>, "ELSE")
                            [] OTHER -> id
                        ELSE id
                   [] s1 = "m" -> handleKeyword(l, 2, 3, <<"p","t","y">>, "EMPTY")
                   [] OTHER -> id
               ELSE id
          [] s0 = "f" -> handleKeyword(l, 1, 2, <<"o","r">>, "FOR")
          [] s0 = "i" ->
               IF n > 1 THEN
                 CASE s1 = "f" -> handleKeyword(l, 1, 1, <<"f">>, "IF")
                   [] s1 = "m" -> handleKeyword(l, 2, 4, <<"p","o","r","t">>, "IMPORT")
                   [] s1 = "n" -> handleKeyword(l, 1, 1, <<"n">>, "IN")
                   [] s1 = "s" -> handleKeyword(l, 1, 1, <<"s">>, "IS")
                   [] OTHER -> id
               ELSE id
          [] s0 = "l" -> handleKeyword(l, 1, 2, <<"s","h">>, "LEFT_SHIFT")
          [] s0 = "n" ->
               IF n > 1 THEN
                 CASE s1 = "a" -> handleKeyword(l, 2, 7, <<"m","e","s","p","a","c","e">>, "NAMESPACE")
                   [] s1 = "e" -> handleKeyword(l, 2, 2, <<"x","t">>, "NEXT")
                   [] s1 = "o" -> handleKeyword(l, 2, 1, <<"t">>, "LOGICAL_NOT")
                   [] OTHER -> id
               ELSE id
          [] s0 = "o" -> handleKeyword(l, 1, 1, <<"r">>, "LOGICAL_OR")
          [] s0 = "p" ->
               IF n > 1 THEN
                 CASE s1 = "a" -> handleKeyword(l, 2, 2, <<"s","s">>, "PASS")
                   [] s1 = "r" ->
                        IF n > 2 THEN
                          CASE s2 = "e" -> handleKeyword(l, 3, 1, <<"v">>, "PREV")
                            [] s2 = "i" -> handleKeyword(l, 3, 4, <<"v","a","t","e">>, "PRIVATE")
                            [] OTHER -> id
                        ELSE id
                   [] s1 = "t" -> handleKeyword(l, 2, 1, <<"r">>, "PTR")
                   [] s1 = "u" -> handleKeyword(l, 2, 4, <<"b","l","i","c">>, "PUBLIC")
                   [] OTHER -> id
               ELSE id
          [] s0 = "r" ->
               IF n > 1 THEN
                 CASE s1 = "e" ->
                        IF n > 2 THEN
                          CASE s2 = "f" -> handleKeyword(l, 2, 1, <<"f">>, "REF")
                            [] s2 = "t" -> handleKeyword(l, 3, 3, <<"u","r","n">>, "RETURN")
                            [] OTHER -> id
                        ELSE id
                   [] s1 = "s" -> handleKeyword(l, 2, 1, <<"h">>, "RIGHT_SHIFT")
                   [] OTHER -> id
               ELSE id
          [] s0 = "s" -> handleKeyword(l, 1, 5, <<"w","i","t","c","h">>, "SWITCH")
          [] s0 = "t" -> handleKeyword(l, 1, 3, <<"y","p","e">>, "TYPE")
          [] s0 = "u" -> handleKeyword(l, 1, 5, <<"n","i","q","u","e">>, "UNIQUE")
          [] s0 = "v" ->
               IF n <= 1 THEN id
               ELSE IF s1 # "a" THEN id
               ELSE IF n > 2 THEN
                 CASE s2 = "r" -> handleKeyword(l, 2, 1, <<"r">>, "VAR")
                   [] s2 = "l" -> handleKeyword(l, 2, 1, <<"l">>, "VAL")
                   [] OTHER -> id
               ELSE id
          [] s0 = "w" -> handleKeyword(l, 1, 4, <<"h","i","l","e">>, "WHILE")
          [] s0 = "x" -> handleKeyword(l, 1, 2, <<"o","r">>, "BITWISE_XOR")
          [] OTHER -> id

identifier(l0) ==
    LET l1 == IdentifierRun(l0)
    IN  Ret(l1, keywordSwitch(l1))

(* Operator and punctuation scanner *)

One(l, type) == Ret(l, makeToken(l, type))

\* return makeToken(lexer, match(lexer, ch) ? matched : single)
Two(l, ch, matched, single) ==
    IF match(l, ch) THEN One(advance(l), matched) ELSE One(l, single)

\* lexer.c 222-228
newline(l) ==
    Ret([l EXCEPT !.line = @ + 1, !.column = 1, !.ignore_whitespace = FALSE],
        makeToken(l, "NEWLINE"))

\* an '=' case that gives up on "=!" and returns the '=' alone
equalSignFallingBack(l) ==
    IF match(l, "=")
    THEN Two(advance(l), "=", "MATCH", "EQUAL_EQUAL")
    ELSE IF match(l, "!") /\ match(advance(l), "=")
    THEN One(advance(advance(l)), "NOT_MATCH")
    ELSE One(l, "EQUAL")

\* lexer.c 178-181: case '='
equalSign(l) ==
    IF match(l, "=")
    THEN Two(advance(l), "=", "MATCH", "EQUAL_EQUAL")
    ELSE IF match(l, "!")
    THEN IF match(advance(l), "=")
         THEN One(advance(advance(l)), "NOT_MATCH")
         ELSE Ret(advance(l), errorToken(advance(l), "Unterminated match operator: expected =!= but found =!."))
    ELSE One(l, "EQUAL")

\* lexer.c 136-244: the switch on the character c that advance() returned
scanToken(l, c) ==
    CASE c = "." -> One(l, "DOT")
      [] c = "!" -> Two(l, "=", "NOT_EQUAL", "LOGICAL_NOT")
      [] c = "~" -> One(l, "BITWISE_NOT")
      [] c = "^" -> One(l, "BITWISE_XOR")
      [] c = "+" -> One(l, "PLUS")
      [] c = "-" -> IF match(l, ">") THEN One(advance(l), "RETURN_TYPE")
                    ELSE IF match(l, "/") THEN One(advance(l), "NS_OPEN")
                    ELSE One(l, "MINUS")
      [] c = "*" -> Two(l, "*", "POW", "MUL")
      [] c = "/" -> Two(l, "-", "NS_CLOSE", "MINUS")
      [] c = "%" -> One(l, "MOD")
      [] c = "'" -> One(l, "QUOTE")
      [] c = "\"" -> Ret(l, errorToken(l, "Strings are not currently supported."))
      [] c = "," -> One(l, "COMMA")
      [] c = ":" -> One(l, "COLON")
      [] c = "=" -> equalSign(l)
      [] c = "<" -> IF match(l, "=") THEN One(advance(l), "LESS_EQUAL")
                    ELSE IF match(l, "<") THEN One(advance(l), "LEFT_SHIFT")
                    ELSE IF match(l, ">") THEN One(advance(l), "NOT_EQUAL")
                    ELSE One(l, "LESS")
      [] c = ">" -> IF match(l, "=") THEN One(advance(l), "GREATER_EQUAL")
                    ELSE IF match(l, ">") THEN One(advance(l), "RIGHT_SHIFT")
                    ELSE One(l, "GREATER")
      [] c = "|" -> Two(l, "|", "LOGICAL_OR", "VERTICAL_BAR")
      [] c = "&" -> Two(l, "&", "LOGICAL_AND", "BITWISE_AND")
      [] c = "(" -> One(l, "LEFT_PAREN")
      [] c = ")" -> One(l, "RIGHT_PAREN")
      [] c = "[" -> One(l, "LEFT_BRACKET")
      [] c = "]" -> One(l, "RIGHT_PAREN")
      [] c = "{" -> One(l, "LEFT_BRACE")
      [] c = "}" -> One(l, "RIGHT_BRACE")
      [] c = "_" -> IF isAlpha(peek(l)) THEN identifier(l) ELSE One(l, "UNDERSCORE")
      [] c = "\n" -> newline(l)
      [] c = "\t" -> handleWhitespace(l, FALSE)
      [] c = " " -> handleWhitespace(l, TRUE)
      [] OTHER -> IF isAlpha(c) THEN identifier(l)
                  ELSE IF isDigit(c) THEN number(l)
                  ELSE Ret(l, errorToken(l, "Unexpected character."))

(* lexToken *)

\* lexer.c 104-108: a dedentation left over by handleWhitespace
pendingDedent(l) ==
    LET l1 == [l EXCEPT !.dedentation_count = @ - 1,
                        !.indentation_count = SizeDec(@)]
    IN  Ret(l1, makeToken(l1, "DEDENT"))

\* lexer.c 112: a line that starts at column 0
atColumnZero(l) ==
    peekBack(l) = "\n" /\ (peek(l) # " " /\ peek(l) # "\t" /\ peek(l) # "\n")

\* lexer.c 122-123
mayIgnoreWhitespace(l) ==
    peekBack(l) = "\n" /\ peek(l) # " " /\ peek(l) # "\t"

\* an end-of-file branch that consumes before it tests for the end
endOfFileAdvancing(l) == Ret(advance(l), makeToken(l, "EOF"))

\* lexer.c 131-132
endOfFile(l) == Ret(l, makeToken(l, "EOF"))

\* a scan that leaves the read position where it was when it returns ERROR
scanNextErrorInPlace(l) ==
    LET l1 == IF mayIgnoreWhitespace(l) THEN [l EXCEPT !.ignore_whitespace = TRUE] ELSE l
        l2 == IF l1.ignore_whitespace THEN skipWhitespace(l1) ELSE l1
        l3 == [l2 EXCEPT !.start = l2.current]
        r == IF isAtEnd(l3) THEN endOfFile(l3) ELSE scanToken(advance(l3), peek(l3))
    IN  IF r.token.type = "ERROR" THEN [r EXCEPT !.lexer = l3] ELSE r

\* lexer.c 125-245: skip what may be skipped, then scan one token
scanNext(l) ==
    LET l1 == IF mayIgnoreWhitespace(l) THEN [l EXCEPT !.ignore_whitespace = TRUE] ELSE l
        l2 == IF l1.ignore_whitespace THEN skipWhitespace(l1) ELSE l1
        l3 == [l2 EXCEPT !.start = l2.current]
    IN  IF isAtEnd(l3) THEN endOfFile(l3)
        ELSE scanToken(advance(l3), peek(l3))

lexToken(l) ==
    IF l.dedentation_count > 0 THEN pendingDedent(l)
    ELSE IF atColumnZero(l)
    THEN LET l1 == [l EXCEPT !.dedentation_count = 0]
         IN  IF l1.indentation_count > 0
             THEN LET l2 == [l1 EXCEPT !.indentation_count = @ - 1]
                  IN  Ret(l2, makeToken(l2, "DEDENT"))
             ELSE scanNext(l1)
    ELSE scanNext(l)

\* lexer.c 56-81
newLexer ==
    [start |-> 0, current |-> 0, line |-> 1, column |-> 1,
     ignore_whitespace |-> TRUE,
     first_indentation_found |-> FALSE,
     is_first_indentation_space |-> FALSE,
     first_indentation_line |-> 0,
     first_indentation_size |-> 0,
     last_indentation_size |-> 0,
     dedentation_count |-> 0,
     indentation_count |-> 0]

(* Parser constructor *)

\* parser.c 121-132: the placeholder for a token that does not exist
invalidToken ==
    [type |-> "ERROR", start |-> -1, length |-> 0, line |-> 0, column |-> 0,
     message |-> "[Parser bug] Invalid access of non-existent token"]

\* a slot of struct Parser that was never written
NoToken ==
    [type |-> "UNSET", start |-> -1, length |-> 0, line |-> 0, column |-> 0,
     message |-> ""]

\* no call of newParser yet, no struct Parser allocated
NoParser ==
    [called |-> FALSE, lexer_given |-> FALSE, program_given |-> FALSE,
     allocated |-> FALSE, failed |-> FALSE, returned |-> FALSE,
     namespace |-> "", previous |-> NoToken, current |-> NoToken, next |-> NoToken]

\* parser.c 107-111: r is what lexToken(parser -> lexer) returned
completeParserInit(p, r) ==
    [p EXCEPT !.previous = invalidToken, !.current = r.token, !.next = invalidToken]

(* Fully qualified names: a text is a sequence of characters *)

\* fqn.c 168-170
isDot(c) == c = "."

\* fqn.c 180-182
isSlash(c) == c = "/" \/ c = "\\"

\* fqn.c 192-206
isValidName(name) == \A i \in 1..Len(name) : isAlpha(name[i]) \/ isDot(name[i])

\* fqn.c 216-230
isValidPath(path) == \A i \in 1..Len(path) : isAlpha(path[i]) \/ isSlash(path[i])

\* a transform that takes the front slash alone for a separator
nameFromPathOfFrontSlashes(path) ==
    [i \in 1..Len(path) |-> IF path[i] = "/" THEN "." ELSE path[i]]

\* fqn.c 239-255
nameFromPath(path) ==
    [i \in 1..Len(path) |-> IF isSlash(path[i]) THEN "." ELSE path[i]]

\* fqn.c 264-280
pathFromName(name) ==
    [i \in 1..Len(name) |-> IF isDot(name[i]) THEN "/" ELSE name[i]]

\* no text given to the transforms
NoFqn == [kind |-> "none", input |-> <<>>, text |-> <<>>, form |-> "none", steps |-> 0]

(* Token kinds *)

\* token_type.h 21-121: the enumerators of enum TokenType in their order,
\* without the prefix AVL_; the first has the value 0
TokenType ==
    << "DOT", "LOGICAL_NOT", "BITWISE_NOT", "BITWISE_OR", "BITWISE_AND",
       "BITWISE_XOR", "LEFT_PAREN", "RIGHT_PAREN", "LEFT_BRACE",
       "RIGHT_BRACE", "LEFT_BRACKET", "RIGHT_BRACKET", "VERTICAL_BAR",
       "UNDERSCORE", "PLUS", "DIV", "MOD", "QUOTE", "COMMA", "NEWLINE",
       "INDENT", "DEDENT", "EQUAL", "EQUAL_EQUAL", "MATCH", "NOT_EQUAL",
       "NOT_MATCH", "GREATER", "GREATER_EQUAL", "LESS", "LESS_EQUAL",
       "MINUS", "RETURN_TYPE", "NS_OPEN", "NS_CLOSE", "LOGICAL_OR",
       "LOGICAL_AND", "LEFT_SHIFT", "RIGHT_SHIFT", "COLON", "COLON_COLON",
       "MUL", "POW", "IDENTIFIER", "STRING", "CLASSICAL_INT",
       "CLASSICAL_FLOAT", "CLASSICAL_HEX", "CLASSICAL_OCT", "CLASSICAL_BIT",
       "CLASSICAL_DEC", "QUANTUM_INT", "QUANTUM_FLOAT", "QUANTUM_HEX",
       "QUANTUM_OCT", "QUANTUM_BIT", "QUANTUM_DEC", "IMPORT", "NAMESPACE",
       "PUBLIC", "PRIVATE", "PTR", "REF", "DREF", "CONST", "TYPE", "DEF",
       "VAR", "VAL", "CAST", "SWITCH", "CASE", "DEFAULT", "IF", "ELIF",
       "ELSE", "FOR", "EMPTY", "WHILE", "CONTINUE", "BREAK", "RETURN",
       "PASS", "IN", "NEXT", "PREV", "IS", "UNIQUE", "EOF", "ERROR" >>

\* the value of an enumerator
EnumValue(type) == (CHOOSE i \in 1..Len(TokenType) : TokenType[i] = type) - 1

Enumerators == { TokenType[i] : i \in 1..Len(TokenType) }

\* token_type.c 28-128: the array of the names
token_types ==
    << "DOT", "LOGICAL_NOT", "BITWISE_NOT", "BITWISE_OR", "BITWISE_AND",
       "BITWISE_XOR", "LEFT_PAREN", "RIGHT_PAREN", "LEFT_BRACE",
       "RIGHT_BRACE", "LEFT_BRACKET", "RIGHT_BRACKET", "VERTICAL_BAR",
       "UNDERSCORE", "PLUS", "DIV", "MOD", "QUOTE", "COMMA", "NEWLINE",
       "INDENT", "DEDENT", "NO_INDENT", "EQUAL", "EQUAL_EQUAL", "MATCH",
       "NOT_EQUAL", "NOT_MATCH", "GREATER", "GREATER_EQUAL", "LESS",
       "LESS_EQUAL", "MINUS", "RETURN_TYPE", "NS_OPEN", "NS_CLOSE",
       "LOGICAL_OR", "LOGICAL_AND", "LEFT_SHIFT", "RIGHT_SHIFT", "COLON",
       "COLON_COLON", "MUL", "POW", "IDENTIFIER", "STRING", "CLASSICAL_INT",
       "CLASSICAL_FLOAT", "CLASSICAL_HEX", "CLASSICAL_OCT", "CLASSICAL_BIT",
       "CLASSICAL_DEC", "QUANTUM_INT", "QUANTUM_FLOAT", "QUANTUM_HEX",
       "QUANTUM_OCT", "QUANTUM_BIT", "QUANTUM_DEC", "IMPORT", "NAMESPACE",
       "PUBLIC", "PRIVATE", "PTR", "REF", "DREF", "CONST", "TYPE", "DEF",
       "VAR", "VAL", "CAST", "SWITCH", "CASE", "DEFAULT", "IF", "ELIF",
       "ELSE", "FOR", "EMPTY", "WHILE", "CONTINUE", "BREAK", "RETURN",
       "PASS", "IN", "NEXT", "PREV", "IS", "UNIQUE", "EOF", "ERROR" >>

\* token_type.c 130: return token_types[(int) type]
tokenTypeToString(type) == token_types[EnumValue(type) + 1]

\* the kinds that lexer.c names in its calls of makeToken and handleKeyword
\* and in errorToken
LexerKinds ==
    { "BITWISE_AND", "BITWISE_NOT", "BITWISE_OR", "BITWISE_XOR", "BREAK",
       "CASE", "CAST", "CLASSICAL_BIT", "CLASSICAL_DEC", "CLASSICAL_FLOAT",
       "CLASSICAL_HEX", "CLASSICAL_INT", "CLASSICAL_OCT", "COLON", "COMMA",
       "CONST", "CONTINUE", "DEDENT", "DEF", "DEFAULT", "DOT", "DREF",
       "ELIF", "ELSE", "EMPTY", "EOF", "EQUAL", "EQUAL_EQUAL", "ERROR",
       "FOR", "GREATER", "GREATER_EQUAL", "IDENTIFIER", "IF", "IMPORT", "IN",
       "INDENT", "IS", "LEFT_BRACE", "LEFT_BRACKET", "LEFT_PAREN",
       "LEFT_SHIFT", "LESS", "LESS_EQUAL", "LOGICAL_AND", "LOGICAL_NOT",
       "LOGICAL_OR", "MATCH", "MINUS", "MOD", "MUL", "NAMESPACE", "NEWLINE",
       "NEXT", "NOT_EQUAL", "NOT_MATCH", "NO_INDENT", "NS_CLOSE", "NS_OPEN",
       "PASS", "PLUS", "POW", "PREV", "PRIVATE", "PTR", "PUBLIC",
       "QUANTUM_BIT", "QUANTUM_DEC", "QUANTUM_FLOAT", "QUANTUM_HEX",
       "QUANTUM_INT", "QUANTUM_OCT", "QUOTE", "REF", "RETURN", "RETURN_TYPE",
       "RIGHT_BRACE", "RIGHT_PAREN", "RIGHT_SHIFT", "SWITCH", "TYPE",
       "UNDERSCORE", "UNIQUE", "VAL", "VAR", "VERTICAL_BAR", "WHILE" }

\* no kind handed to tokenTypeToString
NoRender == [type |-> "", text |-> "", done |-> FALSE]

(* Containers *)

\* A cell of an array holds a pointer or a size_t: 0 is NULL, 1..MaxElement
\* are the values a caller hands over.  Unset is a cell of allocated memory
\* that was never written.
Unset == -1

Elements == 1..MaxElement

\* what a read of a never written cell, or of memory outside the array, finds
Indeterminate == 0..MaxElement

SizeInc(x) == (x + 1) % SizeMod

\* malloc and realloc: an array of n cells that keeps the first cells of the
\* old array of old cells
allocate(a, old, n) == [i \in 0..(n - 1) |-> IF i < old THEN a[i] ELSE Unset]

\* a[i] as a value.  The read of a cell that was never written finds any
\* value; the read outside the n cells of the array is undefined: it faults
\* or finds any value.
readCell(a, n, i) ==
    IF i < n /\ a[i] # Unset
    THEN { [value |-> a[i], fault |-> FALSE] }
    ELSE { [value |-> v, fault |-> FALSE] : v \in Indeterminate }
         \cup (IF i < n THEN {} ELSE { [value |-> 0, fault |-> TRUE] })

\* a[i] = v.  The write outside the n cells of the array is undefined: it
\* faults, or it lands in memory that is no cell of the array.
writeCell(a, n, i, v) ==
    IF i < n
    THEN { [cells |-> [a EXCEPT ![i] = v], fault |-> FALSE] }
    ELSE { [cells |-> a, fault |-> f] : f \in BOOLEAN }

\* how a call ends: it returns, it reaches exit(74), or it faults
Ended(fault, otherwise) == IF fault THEN "faulted" ELSE otherwise

NullPointer == [kind |-> "NULL"]

\* the fields of struct Stack and of struct SizeTStack after newStack and
\* newSizeTStack
newStack(kind, initial_size) ==
    [kind |-> kind, elements |-> allocate(<<>>, 0, initial_size),
     size |-> initial_size, top |-> 0]

\* stackTop and sizeTStackTop
stackTop(s) ==
    IF s.kind = "NULL"
    THEN { [stack |-> s, returned |-> 0, end |-> "exited"] }
    ELSE { [stack |-> s, returned |-> r.value, end |-> Ended(r.fault, "returned")] :
             r \in readCell(s.elements, s.size, s.top) }

\* stackPush and sizeTStackPush: there is no return in front of the exit
\* label
stackPush(s, element) ==
    IF s.kind = "NULL"
    THEN { [stack |-> s, returned |-> 0, end |-> "exited"] }
    ELSE
      LET new_size == (StackGrowth * ElementSize) \div 100
          grown == IF s.top = s.size
                   THEN [s EXCEPT !.elements = allocate(s.elements, s.size, new_size),
                                  !.size = new_size]
                   ELSE s
      IN  { [stack |-> [grown EXCEPT !.elements = w.cells, !.top = SizeInc(@)],
             returned |-> 0, end |-> Ended(w.fault, "exited")] :
              w \in writeCell(grown.elements, grown.size, grown.top, element) }

\* stackPop and sizeTStackPop
stackPop(s) ==
    IF s.kind = "NULL" \/ s.top = s.size
    THEN { [stack |-> s, returned |-> 0, end |-> "exited"] }
    ELSE { [stack |-> [s EXCEPT !.top = SizeDec(@)],
            returned |-> r.value, end |-> Ended(r.fault, "returned")] :
             r \in readCell(s.elements, s.size, s.top) }

\* no stack
NoStack == [kind |-> "none"]

\* the fields of struct Vector after newVector
newVector(initial_capacity) ==
    [kind |-> "Vector", elements |-> allocate(<<>>, 0, initial_capacity),
     capacity |-> initial_capacity, size |-> 0]

vectorSize(v) == v.size

\* vectorResize of a vector that is not NULL
vectorResize(v, new_capacity) ==
    IF new_capacity < v.size
    THEN [vector |-> v, end |-> "exited"]
    ELSE [vector |-> [v EXCEPT !.elements = allocate(v.elements, v.capacity, new_capacity),
                               !.capacity = new_capacity],
          end |-> "returned"]

\* the exit label of the functions of vector.c reads vector -> message, of a
\* NULL pointer too: that read is undefined
vectorNull(v) ==
    { [vector |-> v, returned |-> 0, written |-> -1, end |-> e] :
        e \in {"exited", "faulted"} }

vectorPushback(v, element) ==
    IF v.kind = "NULL" THEN vectorNull(v)
    ELSE
      LET r == IF v.capacity = v.size
               THEN vectorResize(v, GrownCapacity)
               ELSE [vector |-> v, end |-> "returned"]
          u == r.vector
      IN  IF r.end = "exited"
          THEN { [vector |-> u, returned |-> 0, written |-> -1, end |-> "exited"] }
          ELSE { [vector |-> [u EXCEPT !.elements = w.cells, !.size = SizeInc(@)],
                  returned |-> 0, written |-> u.size,
                  end |-> Ended(w.fault, "returned")] :
                   w \in writeCell(u.elements, u.capacity, u.size, element) }

vectorPopback(v) ==
    IF v.kind = "NULL" THEN vectorNull(v)
    ELSE IF v.size = 0
    THEN { [vector |-> v, returned |-> 0, written |-> -1, end |-> "exited"] }
    ELSE { [vector |-> [v EXCEPT !.elements = w.cells, !.size = SizeDec(@)],
            returned |-> r.value, written |-> v.size,
            end |-> Ended(r.fault \/ w.fault, "returned")] :
             r \in readCell(v.elements, v.capacity, v.size),
             w \in writeCell(v.elements, v.capacity, v.size, 0) }

\* no vector
NoVector == [kind |-> "none"]

(* Source texts *)

Run(ch, w) == [i \in 1..w |-> ch]

FirstLines == { <<"\n">>, <<"x", "\n">> }

\* the lines made of an indentation run, a body and a newline
IndentLines(bodies) ==
    { Run(ch, w) \o body \o <<"\n">> :
        ch \in {" ", "\t"}, w \in 0..MaxIndent, body \in bodies }

\* the concatenation of the lines f[1], ..., f[k]
RECURSIVE Concat(_, _)
Concat(f, k) == IF k = 0 THEN <<>> ELSE Concat(f, k - 1) \o f[k]

\* the texts of up to n lines
Texts(lines, n) ==
    UNION { { Concat(f, k) : f \in [1..k -> lines] } : k \in 0..n }

\* a text, or the text without its final newline
WithOpenEnd(S) ==
    S \cup { SubSeq(t, 1, Len(t) - 1) : t \in { u \in S : Len(u) > 0 } }

\* a first line and up to n indented lines
LineSources(bodies, n) ==
    WithOpenEnd({ f \o t : f \in FirstLines, t \in Texts(IndentLines(bodies), n) })

\* lines that are blank or hold a name
IndentSources(n) == LineSources({ <<>>, <<"x">> }, n)

\* lines that are blank, hold a name, or hold a line comment
CommentedSources(n) == LineSources({ <<>>, <<"x">>, <<"-", "-">> }, n)

\* comment markers and newlines
CommentAlphabet == { "-", "[", "]", "\n" }

\* spaces, tabs, newlines and a name character
WhitespaceAlphabet == { " ", "\t", "\n", "x" }

\* digits, the decimal point, a format letter and a letter that is none
LiteralAlphabet == { "0", "1", ".", "d", "x" }

\* the six brackets, a newline, a space and a name character
BracketAlphabet == { "(", ")", "[", "]", "{", "}", "\n", " ", "x" }

\* the characters of the operators that start with '=', '!', '/' and '-'
OperatorAlphabet == { "=", "!", "/", "-", "x" }

\* the comment markers and a character of the comment text
NestingAlphabet == { "-", "[", "]", "x" }

\* letters, an underscore, the two separators of a path and the dot of a name
FqnAlphabet == { "a", "B", "_", "/", "\\", "." }

\* the texts of up to n characters of the alphabet
Strings(alphabet, n) == UNION { [1..k -> alphabet] : k \in 0..n }

\* every text that opens a block comment and goes on with up to n characters
BlockComments(n) == { <<"-", "[">> \o t : t \in Strings(NestingAlphabet, n) }

(* Reserved words *)

\* the reserved words of the language, each with its token kind
Keywords ==
    { <<<<"i","m","p","o","r","t">>, "IMPORT">>,
      <<<<"n","a","m","e","s","p","a","c","e">>, "NAMESPACE">>,
      <<<<"p","u","b","l","i","c">>, "PUBLIC">>,
      <<<<"p","r","i","v","a","t","e">>, "PRIVATE">>,
      <<<<"p","t","r">>, "PTR">>,
      <<<<"r","e","f">>, "REF">>,
      <<<<"d","r","e","f">>, "DREF">>,
      <<<<"c","o","n","s","t">>, "CONST">>,
      <<<<"t","y","p","e">>, "TYPE">>,
      <<<<"d","e","f">>, "DEF">>,
      <<<<"v","a","r">>, "VAR">>,
      <<<<"v","a","l">>, "VAL">>,
      <<<<"c","a","s","t">>, "CAST">>,
      <<<<"s","w","i","t","c","h">>, "SWITCH">>,
      <<<<"c","a","s","e">>, "CASE">>,
      <<<<"d","e","f","a","u","l","t">>, "DEFAULT">>,
      <<<<"i","f">>, "IF">>,
      <<<<"e","l","i","f">>, "ELIF">>,
      <<<<"e","l","s","e">>, "ELSE">>,
      <<<<"f","o","r">>, "FOR">>,
      <<<<"e","m","p","t","y">>, "EMPTY">>,
      <<<<"w","h","i","l","e">>, "WHILE">>,
      <<<<"c","o","n","t","i","n","u","e">>, "CONTINUE">>,
      <<<<"b","r","e","a","k">>, "BREAK">>,
      <<<<"r","e","t","u","r","n">>, "RETURN">>,
      <<<<"p","a","s","s">>, "PASS">>,
      <<<<"i","n">>, "IN">>,
      <<<<"n","e","x","t">>, "NEXT">>,
      <<<<"p","r","e","v">>, "PREV">>,
      <<<<"i","s">>, "IS">>,
      <<<<"u","n","i","q","u","e">>, "UNIQUE">>,
      <<<<"a","n","d">>, "LOGICAL_AND">>,
      <<<<"o","r">>, "LOGICAL_OR">>,
      <<<<"n","o","t">>, "LOGICAL_NOT">>,
      <<<<"b","a","n","d">>, "BITWISE_AND">>,
      <<<<"b","o","r">>, "BITWISE_OR">>,
      <<<<"b","n","o","t">>, "BITWISE_NOT">>,
      <<<<"x","o","r">>, "BITWISE_XOR">>,
      <<<<"l","s","h">>, "LEFT_SHIFT">>,
      <<<<"r","s","h">>, "RIGHT_SHIFT">> }

\* the characters that follow a reserved word in the word sources
ExtensionAlphabet == { "a", "f", "s", "1", "_" }

\* underscores, a digit, a letter and a space
NameAlphabet == { "_", "1", "a", " " }

(* Numeric literals *)

\* the domain tags of a literal, and no tag
Tags == { <<>>, <<"0", "c">>, <<"0", "q">> }

\* the runs of one to n digits
DigitStrings(n) == Strings({ "0", "1" }, n) \ { <<>> }

\* the fractional parts of a literal, and none
Fractions == { <<>>, <<".", "1">> }

\* the format letters, a letter that is no format, and no letter
Formats == { <<>>, <<"b">>, <<"h">>, <<"o">>, <<"d">>, <<"f">>, <<"x">> }

\* what stands before the literal: nothing, or a name and a space
LiteralPrefixes == { <<>>, <<"c", " ">>, <<"d", " ">> }

\* a tag, up to n digits, a fractional part and a format letter
LiteralSources(n) ==
    { pre \o tag \o digits \o fraction \o format :
        pre \in LiteralPrefixes, tag \in Tags, digits \in DigitStrings(n),
        fraction \in Fractions, format \in Formats }

\* every reserved word, cut short or followed by up to n characters
WordSources(n) ==
    UNION { { SubSeq(k[1], 1, i) : i \in 1..Len(k[1]) }
            \cup { k[1] \o t : t \in Strings(ExtensionAlphabet, n) } : k \in Keywords }


(* The driver: compile() of main.c calls lexToken until it returns EOF *)

Count(ts, type) == Cardinality({ i \in 1..Len(ts) : ts[i].type = type })

EofReturned == \E i \in 1..Len(tokens) : tokens[i].type = "EOF"

Last(ts) == ts[Len(ts)]

TypeOK ==
    /\ status \in {"running", "exited", "crashed"}
    /\ lexer.current >= lexer.start
    /\ lexer.current >= prev.current

InitWith(sources) ==
    /\ source \in sources
    /\ lexer = newLexer
    /\ prev = newLexer
    /\ tokens = <<>>
    /\ status = "running"
    /\ parser = NoParser
    /\ fqn = NoFqn
    /\ render = NoRender
    /\ stack = NoStack
    /\ vector = NoVector

Init ==
    InitWith(IndentSources(MaxLines)
             \cup Strings(CommentAlphabet, MaxLen)
             \cup Strings(WhitespaceAlphabet, MaxLen)
             \cup Strings(LiteralAlphabet, MaxLiteral))

InitDeep == InitWith(CommentedSources(DeepLines))

InitPunctuation ==
    InitWith(Strings(BracketAlphabet, MaxBrackets)
             \cup Strings(OperatorAlphabet, MaxOperators))

InitComments == InitWith(BlockComments(MaxNested))

InitLiterals == InitWith(LiteralSources(MaxDigits))

InitParser ==
    InitWith(Strings(NameAlphabet, MaxName) \cup LiteralSources(MaxDigits))

\* a text that is handed over as a path or as a name
InitFqn ==
    /\ source = <<>>
    /\ lexer = newLexer
    /\ prev = newLexer
    /\ tokens = <<>>
    /\ status = "running"
    /\ render = NoRender
    /\ stack = NoStack
    /\ vector = NoVector
    /\ parser = NoParser
    /\ fqn \in { [kind |-> k, input |-> s, text |-> s, form |-> k, steps |-> 0] :
                   k \in {"path", "name"}, s \in Strings(FqnAlphabet, MaxPath) }

\* a kind of the enumeration, or a kind that the lexer names
InitTokenTypes ==
    /\ source = <<>>
    /\ lexer = newLexer
    /\ prev = newLexer
    /\ tokens = <<>>
    /\ status = "running"
    /\ parser = NoParser
    /\ fqn = NoFqn
    /\ stack = NoStack
    /\ vector = NoVector
    /\ render \in { [type |-> t, text |-> "", done |-> FALSE] :
                      t \in Enumerators \cup LexerKinds }

InitWords ==
    InitWith(WordSources(MaxExtension) \cup Strings(NameAlphabet, MaxName))

\* One call of lexToken.  A call that reads past the terminating NUL is
\* undefined: it faults, or it finds a NUL byte there and goes on.  A call
\* that reaches exit(74) ends the process without returning a token.
LexToken ==
    /\ status = "running"
    /\ Count(tokens, "EOF") <= MaxEofCalls
    /\ LET r == lexToken(lexer)
           overrun == lexer.current <= Len(source) /\ r.lexer.current > Len(source)
       IN  \E fault \in (IF overrun THEN BOOLEAN ELSE {FALSE}) :
             IF fault
             THEN /\ status' = "crashed"
                  /\ UNCHANGED <<lexer, tokens>>
             ELSE IF r.exited
             THEN /\ status' = "exited"
                  /\ lexer' = r.lexer
                  /\ UNCHANGED tokens
             ELSE /\ lexer' = r.lexer
                  /\ tokens' = Append(tokens, r.token)
                  /\ UNCHANGED status
    /\ prev' = lexer
    /\ UNCHANGED <<source, parser, fqn, render, stack, vector>>

\* One call of newParser(lexer, program) on the new lexer: parser.c 44-69.  The
\* arguments may be NULL and malloc may fail.  The statement under the label
\* exit follows the call of completeParserInit: there is no return before it.
NewParser ==
    /\ status = "running"
    /\ ~parser.called
    /\ \E lexer_given \in BOOLEAN, program_given \in BOOLEAN, malloc_ok \in BOOLEAN :
         LET given == lexer_given /\ program_given
             p0 == [NoParser EXCEPT !.called = TRUE,
                                    !.lexer_given = lexer_given,
                                    !.program_given = program_given,
                                    !.allocated = given /\ malloc_ok]
             p1 == [p0 EXCEPT !.namespace = "*", !.previous = invalidToken]
             r == lexToken(lexer)
             overrun == r.lexer.current > Len(source)
         IN  IF ~given \/ ~malloc_ok
             THEN /\ parser' = [p0 EXCEPT !.failed = TRUE]
                  /\ status' = "exited"
                  /\ UNCHANGED <<lexer, tokens>>
             ELSE \E fault \in (IF overrun THEN BOOLEAN ELSE {FALSE}) :
                    IF fault
                    THEN /\ parser' = p1
                         /\ status' = "crashed"
                         /\ UNCHANGED <<lexer, tokens>>
                    ELSE IF r.exited
                    THEN /\ parser' = p1
                         /\ status' = "exited"
                         /\ lexer' = r.lexer
                         /\ UNCHANGED tokens
                    ELSE /\ parser' = [completeParserInit(p1, r) EXCEPT !.failed = TRUE]
                         /\ status' = "exited"
                         /\ lexer' = r.lexer
                         /\ tokens' = Append(tokens, r.token)
    /\ prev' = lexer
    /\ UNCHANGED <<source, fqn, render, stack, vector>>

\* nameFromPath applied to a text in path form
NameFromPath ==
    /\ fqn.form = "path"
    /\ fqn.steps < MaxTransforms
    /\ fqn' = [fqn EXCEPT !.text = nameFromPath(@), !.form = "name", !.steps = @ + 1]
    /\ UNCHANGED <<source, lexer, tokens, prev, status, parser, render, stack, vector>>

\* pathFromName applied to a text in name form
PathFromName ==
    /\ fqn.form = "name"
    /\ fqn.steps < MaxTransforms
    /\ fqn' = [fqn EXCEPT !.text = pathFromName(@), !.form = "path", !.steps = @ + 1]
    /\ UNCHANGED <<source, lexer, tokens, prev, status, parser, render, stack, vector>>

\* tokenTypeToString(type): the argument is of type enum TokenType, so the
\* kind is one of the enumerators
TokenTypeToString ==
    /\ ~render.done
    /\ render.type \in Enumerators
    /\ render' = [render EXCEPT !.text = tokenTypeToString(render.type), !.done = TRUE]
    /\ UNCHANGED <<source, lexer, tokens, prev, status, parser, fqn, stack, vector>>

\* a stack that newStack or newSizeTStack returned: the initial size is not 0
InitStack ==
    /\ source = <<>>
    /\ lexer = newLexer
    /\ prev = newLexer
    /\ tokens = <<>>
    /\ status = "running"
    /\ parser = NoParser
    /\ fqn = NoFqn
    /\ render = NoRender
    /\ vector = NoVector
    /\ stack \in { [object |-> newStack(k, n), held |-> <<>>,
                    call |-> [op |-> "new", given |-> TRUE, arg |-> n,
                              returned |-> 0, end |-> "returned"],
                    before |-> [object |-> NullPointer, held |-> <<>>]] :
                     k \in {"Stack", "SizeTStack"}, n \in 1..MaxStack }

\* a vector that newVector returned: the initial capacity is not 0
InitVector ==
    /\ source = <<>>
    /\ lexer = newLexer
    /\ prev = newLexer
    /\ tokens = <<>>
    /\ status = "running"
    /\ parser = NoParser
    /\ fqn = NoFqn
    /\ render = NoRender
    /\ stack = NoStack
    /\ vector \in { [object |-> newVector(n), held |-> <<>>, pushes |-> 0, pops |-> 0,
                     call |-> [op |-> "new", given |-> TRUE, arg |-> n,
                               returned |-> 0, written |-> -1, end |-> "returned"],
                     before |-> [object |-> NullPointer, held |-> <<>>]] :
                      n \in 1..MaxCapacity }

\* the process after a call that ended in this way
After(end) ==
    CASE end = "returned" -> "running"
      [] end = "exited" -> "exited"
      [] OTHER -> "crashed"

\* a call of a function of stack.c with the stack, or with NULL, whose outcome
\* is o; held is what a stack holds after the call
StackCall(op, given, arg, o, held) ==
    /\ stack' = [object |-> IF given THEN o.stack ELSE stack.object,
                 held |-> held,
                 call |-> [op |-> op, given |-> given, arg |-> arg,
                           returned |-> o.returned, end |-> o.end],
                 before |-> [object |-> stack.object, held |-> stack.held]]
    /\ status' = After(o.end)
    /\ UNCHANGED <<source, lexer, tokens, prev, parser, fqn, render, vector>>

StackPush ==
    /\ status = "running"
    /\ \E given \in BOOLEAN, element \in Elements :
         \E o \in stackPush(IF given THEN stack.object ELSE NullPointer, element) :
            StackCall("push", given, element, o,
                      IF given THEN Append(stack.held, element) ELSE stack.held)

StackTop ==
    /\ status = "running"
    /\ \E given \in BOOLEAN :
         \E o \in stackTop(IF given THEN stack.object ELSE NullPointer) :
            StackCall("top", given, 0, o, stack.held)

StackPop ==
    /\ status = "running"
    /\ \E given \in BOOLEAN :
         \E o \in stackPop(IF given THEN stack.object ELSE NullPointer) :
            StackCall("pop", given, 0, o,
                      IF given /\ Len(stack.held) > 0
                      THEN SubSeq(stack.held, 1, Len(stack.held) - 1)
                      ELSE stack.held)

\* a call of a function of vector.c with the vector, or with NULL, whose
\* outcome is o
VectorCall(op, given, arg, o, held) ==
    /\ vector' = [object |-> IF given THEN o.vector ELSE vector.object,
                  held |-> held,
                  pushes |-> vector.pushes + (IF op = "pushback" /\ given THEN 1 ELSE 0),
                  pops |-> vector.pops + (IF op = "popback" /\ given THEN 1 ELSE 0),
                  call |-> [op |-> op, given |-> given, arg |-> arg,
                            returned |-> o.returned, written |-> o.written,
                            end |-> o.end],
                  before |-> [object |-> vector.object, held |-> vector.held]]
    /\ status' = After(o.end)
    /\ UNCHANGED <<source, lexer, tokens, prev, parser, fqn, render, stack>>

VectorPushback ==
    /\ status = "running"
    /\ vector.pushes < MaxPushes
    /\ \E given \in BOOLEAN, element \in Elements :
         \E o \in vectorPushback(IF given THEN vector.object ELSE NullPointer, element) :
            VectorCall("pushback", given, element, o,
                       IF given THEN Append(vector.held, element) ELSE vector.held)

VectorPopback ==
    /\ status = "running"
    /\ \E given \in BOOLEAN :
         \E o \in vectorPopback(IF given THEN vector.object ELSE NullPointer) :
            VectorCall("popback", given, 0, o,
                       IF given /\ Len(vector.held) > 0
                       THEN SubSeq(vector.held, 1, Len(vector.held) - 1)
                       ELSE vector.held)

Next == LexToken

NextStack == StackPush \/ StackTop \/ StackPop

NextVector == VectorPushback \/ VectorPopback

NextTokenTypes == TokenTypeToString

NextParser == NewParser

NextFqn == NameFromPath \/ PathFromName

Spec == Init /\ [][Next]_vars

SpecDeep == InitDeep /\ [][Next]_vars

SpecPunctuation == InitPunctuation /\ [][Next]_vars

SpecComments == InitComments /\ [][Next]_vars

SpecWords == InitWords /\ [][Next]_vars

SpecLiterals == InitLiterals /\ [][Next]_vars

SpecParser == InitParser /\ [][NextParser]_vars

SpecFqn == InitFqn /\ [][NextFqn]_vars

SpecTokenTypes == InitTokenTypes /\ [][NextTokenTypes]_vars

SpecStack == InitStack /\ [][NextStack]_vars

SpecVector == InitVector /\ [][NextVector]_vars

(* Properties of the token stream *)

FirstEof == CHOOSE i \in 1..Len(tokens) :
                /\ tokens[i].type = "EOF"
                /\ \A j \in 1..(i - 1) : tokens[j].type # "EOF"

UpToFirstEof == SubSeq(tokens, 1, FirstEof)

\* C1: in the tokens returned up to and including the first EOF there are as
\* many DEDENT tokens as INDENT tokens.
C1_DedentsBalanceIndents ==
    EofReturned =>
        Count(UpToFirstEof, "DEDENT") = Count(UpToFirstEof, "INDENT")

\* C2: the driver loop ends by a call that returns EOF: the process never
\* stops calling lexToken (by a fault or by exit) before EOF was returned.
C2_LoopEndsWithEof == status # "running" => EofReturned

C4_NoEofInsideOpenBlock ==
    EofReturned =>
        Count(UpToFirstEof, "DEDENT") >= Count(UpToFirstEof, "INDENT")

(* The line structure of the source, in the terms of the indentation rules:
   the lines, the width of their leading run, and the stack of the widths of
   the blocks that are open when a line starts.  Nothing below is read by
   the lexer. *)

IsWs(c) == c = " " \/ c = "\t"

\* the offsets at which a line starts after a newline character
LineStarts == { c \in 1..(Len(source) - 1) : source[c] = "\n" }

RECURSIVE RunEnd(_, _)
RunEnd(off, ch) == IF CharAt(off) = ch THEN RunEnd(off + 1, ch) ELSE off

\* the width of the maximal run of one kind of whitespace that starts the line
LineWidth(c) == IF IsWs(CharAt(c)) THEN RunEnd(c, CharAt(c)) - c ELSE 0

AfterRun(c) == CharAt(c + LineWidth(c))

LineBlank(c) == AfterRun(c) \in {"\n", NUL}

LineMixed(c) == LineWidth(c) > 0 /\ IsWs(AfterRun(c))

LineNumber(c) == 1 + Cardinality({ i \in 1..c : source[i] = "\n" })

IndentedLines == { c \in LineStarts : LineWidth(c) > 0 /\ ~LineBlank(c) }

FirstIndented == CHOOSE c \in IndentedLines : \A d \in IndentedLines : c <= d

\* no comment, no carriage return, the first line at column 0, and every
\* leading run of the kind and a multiple of the width of the first one
WellFormedSource ==
    /\ \A i \in 1..Len(source) : source[i] \notin {"-", "\r"}
    /\ ~IsWs(CharAt(0))
    /\ \A c \in LineStarts : ~LineMixed(c)
    /\ \A c, d \in LineStarts : (IsWs(CharAt(c)) /\ IsWs(CharAt(d))) => CharAt(c) = CharAt(d)
    /\ \A c \in IndentedLines : LineWidth(c) % LineWidth(FirstIndented) = 0

Top(st) == st[Len(st)]

Widths(st) == { st[i] : i \in 1..Len(st) }

\* close the blocks wider than w, open one if w is wider than what is left
Adjust(st, w) ==
    LET kept == SelectSeq(st, LAMBDA x : x <= w)
    IN  IF Top(kept) = w THEN kept ELSE Append(kept, w)

PrevStart(c) ==
    CHOOSE p \in LineStarts \cup {0} :
        p < c /\ \A q \in LineStarts \cup {0} : q < c => q <= p

\* the widths of the blocks open when the line at c starts, bottom first
RECURSIVE OpenBlocks(_)
OpenBlocks(c) ==
    IF c = 0 THEN <<0>>
    ELSE LET p == PrevStart(c)
         IN  IF LineBlank(p) THEN OpenBlocks(p)
             ELSE Adjust(OpenBlocks(p), LineWidth(p))

\* the last call of lexToken returned a token and began at offset c
LastCallAt(c) == status = "running" /\ Len(tokens) > 0 /\ prev.current = c

\* a token scanned behind the leading run of the line at c has been returned
LineScanned(c) ==
    \E i \in 1..Len(tokens) :
        /\ tokens[i].type \notin {"DEDENT", "ERROR"}
        /\ tokens[i].start >= c + LineWidth(c)

DedentsOfLine(c) ==
    Cardinality({ i \in 1..Len(tokens) :
                    tokens[i].type = "DEDENT" /\ tokens[i].line = LineNumber(c) })

(* Properties of the indentation tracker *)

\* C5: a line whose leading run is wider than the innermost open block (also
\* when that block is the base level 0 after a line at column 0) is answered
\* with INDENT.
C5_IndentOnDeeperLine ==
    \A c \in LineStarts :
        ( /\ LastCallAt(c)
          /\ WellFormedSource
          /\ ~LineBlank(c)
          /\ LineWidth(c) > Top(OpenBlocks(c)) )
        => Last(tokens).type = "INDENT"

\* C6: a line whose leading run is narrower than the innermost open block is
\* answered with one DEDENT for each open block that is wider than the run.
C6_OneDedentPerClosedBlock ==
    \A c \in LineStarts :
        ( /\ WellFormedSource
          /\ ~LineBlank(c)
          /\ LineWidth(c) > 0
          /\ LineWidth(c) < Top(OpenBlocks(c))
          /\ LineWidth(c) \in Widths(OpenBlocks(c))
          /\ LineScanned(c) )
        => DedentsOfLine(c) =
             Cardinality({ k \in 1..Len(OpenBlocks(c)) : OpenBlocks(c)[k] > LineWidth(c) })

\* C7: a line narrower than the innermost open block whose width is the width
\* of no open block is answered with ERROR.
C7_InconsistentDedentIsError ==
    \A c \in LineStarts :
        ( /\ LastCallAt(c)
          /\ WellFormedSource
          /\ ~LineBlank(c)
          /\ LineWidth(c) < Top(OpenBlocks(c))
          /\ LineWidth(c) \notin Widths(OpenBlocks(c)) )
        => Last(tokens).type = "ERROR"

\* C8: once the unit is set, a call that reads over the start of a line whose
\* leading run is not a multiple of the unit and is followed by a character
\* other than a newline begins at that line start, returns ERROR, and leaves
\* first_indentation_size, indentation_count and last_indentation_size alone.
C8_NonMultipleIsError ==
    \A c \in LineStarts :
        ( /\ status = "running"
          /\ Len(tokens) > 0
          /\ prev.current <= c
          /\ c < lexer.current
          /\ prev.first_indentation_found
          /\ LineWidth(c) > 0
          /\ LineWidth(c) % prev.first_indentation_size # 0
          /\ AfterRun(c) \notin {"\n", NUL} )
        => /\ prev.current = c
           /\ Last(tokens).type = "ERROR"
           /\ lexer.first_indentation_size = prev.first_indentation_size
           /\ lexer.indentation_count = prev.indentation_count
           /\ lexer.last_indentation_size = prev.last_indentation_size

\* the last call of lexToken measured a run of the kind that the first
\* indentation did not use
OtherKindMeasured ==
    /\ status = "running"
    /\ Len(tokens) > 0
    /\ prev.first_indentation_found
    /\ prev.dedentation_count = 0
    /\ ~prev.ignore_whitespace
    /\ IsWs(CharAt(prev.current))
    /\ (CharAt(prev.current) = " ") # prev.is_first_indentation_space

\* C9: after the first indentation no call changes is_first_indentation_space
\* or first_indentation_size, and a measured run of the other kind returns
\* ERROR and leaves indentation_count and last_indentation_size alone.
C9_KindAndUnitWriteOnce ==
    /\ prev.first_indentation_found =>
          /\ lexer.first_indentation_found
          /\ lexer.is_first_indentation_space = prev.is_first_indentation_space
          /\ lexer.first_indentation_size = prev.first_indentation_size
    /\ OtherKindMeasured =>
          /\ Last(tokens).type = "ERROR"
          /\ lexer.indentation_count = prev.indentation_count
          /\ lexer.last_indentation_size = prev.last_indentation_size

\* a tab run was measured after two-space indentation had been set and a
\* deeper block had been opened
C9_Witness ==
    /\ OtherKindMeasured
    /\ prev.is_first_indentation_space
    /\ prev.first_indentation_size = 2
    /\ prev.indentation_count = 1
    /\ Count(tokens, "INDENT") >= 1

\* C10: a leading run at the start of a line that holds both spaces and tabs
\* is answered with ERROR.
C10_MixedRunIsError ==
    \A c \in LineStarts :
        (LastCallAt(c) /\ LineMixed(c)) => Last(tokens).type = "ERROR"

\* the leading runs are of one kind and multiples of the first one, whatever
\* else the lines hold
WellFormedLines ==
    /\ ~IsWs(CharAt(0))
    /\ \A c \in LineStarts : ~LineMixed(c)
    /\ \A c, d \in LineStarts : (IsWs(CharAt(c)) /\ IsWs(CharAt(d))) => CharAt(c) = CharAt(d)
    /\ \A c \in IndentedLines : LineWidth(c) % LineWidth(FirstIndented) = 0

\* the last call of lexToken returned a token and read over offset c
LastCallOver(c) ==
    /\ status = "running"
    /\ Len(tokens) > 0
    /\ prev.current <= c
    /\ c < lexer.current

\* C11: the call that reads over the start of a line whose leading run is as
\* wide as the innermost open block begins at that line start, returns
\* NO_INDENT, and leaves first_indentation_size, last_indentation_size,
\* indentation_count and dedentation_count alone.
C11_NoIndentOnSameWidth ==
    \A c \in LineStarts :
        ( /\ LastCallOver(c)
          /\ WellFormedLines
          /\ ~LineBlank(c)
          /\ LineWidth(c) > 0
          /\ LineWidth(c) = Top(OpenBlocks(c)) )
        => /\ prev.current = c
           /\ Last(tokens).type = "NO_INDENT"
           /\ lexer.first_indentation_size = prev.first_indentation_size
           /\ lexer.last_indentation_size = prev.last_indentation_size
           /\ lexer.indentation_count = prev.indentation_count
           /\ lexer.dedentation_count = prev.dedentation_count

\* C12: the call that reads over the start of a line that holds nothing but
\* spaces or nothing but tabs, up to its newline or the end of input, begins
\* at that line start, returns NEWLINE, and leaves first_indentation_found,
\* first_indentation_size, last_indentation_size and indentation_count alone.
C12_BlankLineIsNewline ==
    \A c \in LineStarts :
        ( /\ LastCallOver(c)
          /\ LineWidth(c) > 0
          /\ LineBlank(c) )
        => /\ prev.current = c
           /\ Last(tokens).type = "NEWLINE"
           /\ lexer.first_indentation_found = prev.first_indentation_found
           /\ lexer.first_indentation_size = prev.first_indentation_size
           /\ lexer.last_indentation_size = prev.last_indentation_size
           /\ lexer.indentation_count = prev.indentation_count

(* The bracket structure of the source, in the terms of the bracket depth
   rules.  Nothing below is read by the lexer. *)

Openers == { "(", "[", "{" }

CloserOf(c) == CASE c = "(" -> ")" [] c = "[" -> "]" [] c = "{" -> "}"

\* the openers not yet closed after the first k characters, outermost first
RECURSIVE OpenBrackets(_)
OpenBrackets(k) ==
    IF k = 0 THEN <<>>
    ELSE LET st == OpenBrackets(k - 1)
             ch == source[k]
         IN  IF ch \in Openers THEN Append(st, ch)
             ELSE IF Len(st) > 0 /\ ch = CloserOf(st[Len(st)])
             THEN SubSeq(st, 1, Len(st) - 1)
             ELSE st

\* the character at offset off stands between an opener and its closer
Enclosed(off) ==
    /\ off <= Len(source)
    /\ Len(OpenBrackets(off)) > 0
    /\ \E j \in (off + 1)..Len(source) : Len(OpenBrackets(j)) < Len(OpenBrackets(off))

\* C13: no NEWLINE token is returned for a newline character that stands
\* between a bracket and its matching closer, and no INDENT, DEDENT or
\* NO_INDENT token for a leading run there.
C13_NoNewlineInsideBrackets ==
    \A i \in 1..Len(tokens) :
        /\ tokens[i].type = "NEWLINE" =>
              ~Enclosed(tokens[i].start + tokens[i].length - 1)
        /\ ( /\ tokens[i].type \in {"INDENT", "DEDENT", "NO_INDENT"}
             /\ tokens[i].start >= 0
             /\ IsWs(CharAt(tokens[i].start)) ) =>
              ~Enclosed(tokens[i].start)

Closers == { ")", "]", "}" }

OpenerOf(c) == CASE c = ")" -> "(" [] c = "]" -> "[" [] c = "}" -> "{"

\* the depth counter of one kind of bracket after the first k characters
RECURSIVE BracketDepth(_, _)
BracketDepth(opener, k) ==
    IF k = 0 THEN 0
    ELSE LET d == BracketDepth(opener, k - 1)
         IN  IF source[k] = opener THEN d + 1
             ELSE IF source[k] = CloserOf(opener) /\ d > 0 THEN d - 1
             ELSE d

\* the last call of lexToken scanned a token that starts with a closing
\* bracket of a kind of which none is open
UnbalancedCloserScanned ==
    /\ status = "running"
    /\ Len(tokens) > 0
    /\ lexer.current > prev.current
    /\ lexer.start < Len(source)
    /\ CharAt(lexer.start) \in Closers
    /\ BracketDepth(OpenerOf(CharAt(lexer.start)), lexer.start) = 0

\* C14: a closing bracket met while no bracket of its kind is open is answered
\* with ERROR.
C14_UnbalancedCloserIsError ==
    UnbalancedCloserScanned => Last(tokens).type = "ERROR"

(* The comments of the source, in the terms of the comment rules.  Nothing
   below is read by the lexer. *)

PairAt(off, a, b) == CharAt(off) = a /\ CharAt(off + 1) = b

\* the offsets of the given character (of the given pair) at or after off
CharsFrom(off, a) == { k \in off..(Len(source) - 1) : CharAt(k) = a }

PairsFrom(off, a, b) == { k \in off..(Len(source) - 2) : PairAt(k, a, b) }

Least(S) == CHOOSE k \in S : \A j \in S : k <= j

\* the source begins with a line comment that a newline ends
StartsWithLineComment == PairAt(0, "-", "-") /\ CharsFrom(2, "\n") # {}

\* the source begins with a block comment without nested comment whose close
\* marker is directly followed by a newline
StartsWithBlockComment ==
    /\ PairAt(0, "-", "[")
    /\ PairsFrom(2, "-", "[") = {}
    /\ PairsFrom(2, "]", "-") # {}
    /\ CharAt(Least(PairsFrom(2, "]", "-")) + 2) = "\n"

\* C15: the first token of a source that begins with a comment is the NEWLINE
\* of the newline that follows the comment.
C15_CommentKeepsNewline ==
    /\ (StartsWithLineComment /\ Len(tokens) > 0) =>
          /\ tokens[1].type = "NEWLINE"
          /\ tokens[1].start = Least(CharsFrom(2, "\n"))
    /\ (StartsWithBlockComment /\ Len(tokens) > 0) =>
          /\ tokens[1].type = "NEWLINE"
          /\ tokens[1].start = Least(PairsFrom(2, "]", "-")) + 2

\* the offset behind the close marker that brings the nesting level of a
\* block comment back to 0, scanning from offset k at the given level; -1 when
\* the end of input comes first
RECURSIVE BalancedEnd(_, _)
BalancedEnd(k, level) ==
    IF k >= Len(source) THEN -1
    ELSE IF PairAt(k, "-", "[") THEN BalancedEnd(k + 2, level + 1)
    ELSE IF PairAt(k, "]", "-")
    THEN IF level = 1 THEN k + 2 ELSE BalancedEnd(k + 2, level - 1)
    ELSE BalancedEnd(k + 1, level)

\* the source begins with a balanced block comment, and what follows it is
\* neither whitespace nor a comment nor a newline
StartsWithBalancedComment ==
    /\ PairAt(0, "-", "[")
    /\ BalancedEnd(2, 1) # -1
    /\ CharAt(BalancedEnd(2, 1)) \notin {" ", "\t", "\r", "\n", "-"}

\* C16: the first token of a source that begins with a balanced block comment
\* starts directly behind the close marker that balances the comment.
C16_CommentEndsAtBalancingClose ==
    (StartsWithBalancedComment /\ Len(tokens) > 0) =>
        /\ tokens[1].type # "ERROR"
        /\ tokens[1].start = BalancedEnd(2, 1)

\* the source begins with a block comment that the end of input cuts off
StartsWithOpenComment == PairAt(0, "-", "[") /\ BalancedEnd(2, 1) = -1

\* C17: the call that meets the end of input inside a block comment returns
\* EOF with the read position at the end of input; the process neither faults
\* nor exits.
C17_OpenCommentEndsWithEof ==
    (StartsWithOpenComment /\ (Len(tokens) > 0 \/ status # "running")) =>
        /\ status = "running"
        /\ tokens[1].type = "EOF"
        /\ tokens[1].start = Len(source)
        /\ lexer.current = Len(source)

(* Properties of the position bookkeeping *)

\* the newline characters among the characters consumed so far
NewlinesConsumed ==
    Cardinality({ i \in 1..Len(source) : i <= lexer.current /\ source[i] = "\n" })

\* C18: after every call lexer.line is 1 plus the number of newline characters
\* consumed so far, however they were consumed.
C18_LineCountsNewlines == lexer.line = 1 + NewlinesConsumed

\* a newline inside a block comment and the newline behind its close marker
\* have been consumed by the call that returned EOF
C18_Witness ==
    /\ PairAt(0, "-", "[")
    /\ CharAt(2) = "\n"
    /\ PairAt(3, "]", "-")
    /\ CharAt(5) = "\n"
    /\ EofReturned
    /\ lexer.current = Len(source)
    /\ lexer.line = 3

(* Properties of the operator scanner *)

\* the last call of lexToken scanned a token that starts with the character c
Scanned(c) ==
    /\ status = "running"
    /\ Len(tokens) > 0
    /\ lexer.current > prev.current
    /\ lexer.start < Len(source)
    /\ CharAt(lexer.start) = c

\* the last call returned a token of the given kind that spans n characters
Returned(type, n) ==
    /\ Last(tokens).type = type
    /\ lexer.current = lexer.start + n

\* C19: a token scanned from '=' is the longest of '=', '==', '===' and '=!='
\* that the source holds there, and "=!" without a third '=' is one ERROR.
C19_EqualIsMaximalMunch ==
    Scanned("=") =>
        LET a == CharAt(lexer.start + 1)
            b == CharAt(lexer.start + 2)
        IN  /\ a \notin {"=", "!"} => Returned("EQUAL", 1)
            /\ (a = "=" /\ b # "=") => Returned("EQUAL_EQUAL", 2)
            /\ (a = "=" /\ b = "=") => Returned("MATCH", 3)
            /\ (a = "!" /\ b = "=") => Returned("NOT_MATCH", 3)
            /\ (a = "!" /\ b # "=") => Returned("ERROR", 2)

\* "=!" at the end of the source was answered with ERROR after "==" had been
\* returned as EQUAL_EQUAL
C19_Witness ==
    /\ Scanned("=")
    /\ CharAt(lexer.start + 1) = "!"
    /\ lexer.start + 2 = Len(source)
    /\ Last(tokens).type = "ERROR"
    /\ Count(tokens, "EQUAL_EQUAL") >= 1

\* C20: a token scanned from '/' is NS_CLOSE when a '-' follows and DIV
\* otherwise.
C20_SlashIsDiv ==
    Scanned("/") =>
        IF CharAt(lexer.start + 1) = "-"
        THEN Returned("NS_CLOSE", 2)
        ELSE Returned("DIV", 1)

\* the token kind that the token enumeration documents for a bracket
BracketKind(c) ==
    CASE c = "(" -> "LEFT_PAREN"
      [] c = ")" -> "RIGHT_PAREN"
      [] c = "{" -> "LEFT_BRACE"
      [] c = "}" -> "RIGHT_BRACE"
      [] c = "[" -> "LEFT_BRACKET"
      [] c = "]" -> "RIGHT_BRACKET"

\* C21: a token scanned from a bracket character is of the kind that the token
\* enumeration documents for that character.
C21_BracketsHaveTheirOwnKind ==
    \A c \in Openers \cup Closers :
        Scanned(c) => Returned(BracketKind(c), 1)

\* the last call of lexToken called identifier(): it started at a letter, or at
\* an underscore that a letter or an underscore follows
IdentifierCalled ==
    /\ status = "running"
    /\ Len(tokens) > 0
    /\ lexer.current > prev.current
    /\ lexer.start < Len(source)
    /\ \/ isLetter(CharAt(lexer.start))
       \/ CharAt(lexer.start) = "_" /\ isAlpha(CharAt(lexer.start + 1))

\* the text that the last call scanned
Lexeme == SubSeq(source, lexer.start + 1, lexer.current)

\* the token kind of a lexeme by the table of the reserved words
KindOfWord(w) ==
    IF \E k \in Keywords : k[1] = w
    THEN (CHOOSE k \in Keywords : k[1] = w)[2]
    ELSE "IDENTIFIER"

\* C22: identifier() returns the token kind of a reserved word if and only if
\* the scanned lexeme is that word exactly; every other lexeme, a proper prefix
\* or an extension of a reserved word included, is an IDENTIFIER.
C22_KeywordIffExactWord ==
    IdentifierCalled => Last(tokens).type = KindOfWord(Lexeme)

\* a character of a name: a letter, an underscore or a digit
IsNameChar(c) == isAlpha(c) \/ isDigit(c)

\* the offset behind the run of name characters that holds offset off
RECURSIVE NameEnd(_)
NameEnd(off) ==
    IF off < Len(source) /\ IsNameChar(CharAt(off)) THEN NameEnd(off + 1) ELSE off

\* the token kinds of the reserved words
KeywordKinds == { k[2] : k \in Keywords }

\* the last call of lexToken started at the first character of a maximal run
\* of name characters, and that character is a letter or an underscore
NameRunScanned ==
    /\ status = "running"
    /\ Len(tokens) > 0
    /\ lexer.current > prev.current
    /\ lexer.start < Len(source)
    /\ isAlpha(CharAt(lexer.start))
    /\ lexer.start = 0 \/ ~IsNameChar(CharAt(lexer.start - 1))

\* C23: a maximal run of letters, digits and underscores that starts with a
\* letter or an underscore is returned as one token, a keyword or an
\* IDENTIFIER, whose span is the whole run.
C23_NameRunIsOneToken ==
    NameRunScanned =>
        /\ Last(tokens).type \in KeywordKinds \cup {"IDENTIFIER"}
        /\ Last(tokens).start = lexer.start
        /\ Last(tokens).length = NameEnd(lexer.start) - lexer.start
        /\ lexer.current = NameEnd(lexer.start)

\* the offset behind the run of digits that starts at offset off
RECURSIVE DigitsEnd(_)
DigitsEnd(off) ==
    IF off < Len(source) /\ isDigit(CharAt(off)) THEN DigitsEnd(off + 1) ELSE off

\* The numeric literal that starts at offset k, read by the grammar of the
\* literals: a tag "0c" or "0q" before a digit, the digits, a '.' with
\* digits, and the letter behind them.
Tagged(k) ==
    /\ CharAt(k) = "0"
    /\ CharAt(k + 1) \in {"c", "q"}
    /\ isDigit(CharAt(k + 2))

IsQuantum(k) == Tagged(k) /\ CharAt(k + 1) = "q"

IntegerEnd(k) == DigitsEnd(IF Tagged(k) THEN k + 2 ELSE k)

IsFractional(k) ==
    CharAt(IntegerEnd(k)) = "." /\ isDigit(CharAt(IntegerEnd(k) + 1))

FractionEnd(k) ==
    IF IsFractional(k) THEN DigitsEnd(IntegerEnd(k) + 1) ELSE IntegerEnd(k)

FormatLetter(k) == CharAt(FractionEnd(k))

HasFormat(k) == isLetter(FormatLetter(k))

ValidFormat(k) ==
    IF IsFractional(k) THEN FormatLetter(k) \in {"f", "d"}
    ELSE FormatLetter(k) \in {"b", "h", "o", "d"}

LiteralEnd(k) == IF HasFormat(k) THEN FractionEnd(k) + 1 ELSE FractionEnd(k)

\* the kind of a literal by its domain, its fractional part and its letter
LiteralKind(quantum, fractional, letter) ==
    LET family == IF quantum THEN "QUANTUM_" ELSE "CLASSICAL_"
        base == IF fractional
                THEN CASE letter = "f" -> "FLOAT"
                       [] letter = "d" -> "DEC"
                       [] OTHER -> "FLOAT"
                ELSE CASE letter = "b" -> "BIT"
                       [] letter = "h" -> "HEX"
                       [] letter = "o" -> "OCT"
                       [] letter = "d" -> "INT"
                       [] OTHER -> "INT"
    IN  family \o base

\* the last call of lexToken started at the first digit of a literal; the call
\* returned a token, or it ended the process
LiteralScanned ==
    /\ status # "crashed"
    /\ lexer.current > prev.current
    /\ lexer.start < Len(source)
    /\ isDigit(CharAt(lexer.start))
    /\ \/ lexer.start = 0
       \/ ~IsNameChar(CharAt(lexer.start - 1)) /\ CharAt(lexer.start - 1) # "."

\* the last call returned a token of this kind that spans offsets from..to-1
ReturnedSpan(type, from, to) ==
    /\ status = "running"
    /\ Len(tokens) > 0
    /\ Last(tokens).type = type
    /\ Last(tokens).start = from
    /\ Last(tokens).length = to - from
    /\ lexer.current = to

\* C24: a literal made of an optional tag, digits, an optional fractional part
\* and an optional valid format letter is returned as one token of the kind
\* fixed by its domain, its fractional part and its letter, and the span of
\* the token covers the tag, the digits and the letter.
C24_LiteralKindAndSpan ==
    LET k == lexer.start
    IN  (/\ LiteralScanned
         /\ HasFormat(k) => ValidFormat(k)
         /\ ~IsNameChar(CharAt(LiteralEnd(k))))
        => ReturnedSpan(LiteralKind(IsQuantum(k), IsFractional(k), FormatLetter(k)),
                        k, LiteralEnd(k))

\* C25: a literal followed directly by a letter that is no valid format for it,
\* integer or fractional, classical or quantum, makes lexToken return an ERROR
\* token; the process goes on.
C25_InvalidFormatIsErrorToken ==
    LET k == lexer.start
    IN  (LiteralScanned /\ HasFormat(k) /\ ~ValidFormat(k))
        => (status = "running" /\ Len(tokens) > 0 /\ Last(tokens).type = "ERROR")

\* the last call started at a literal whose first digit is '0' and whose next
\* character is a letter other than 'c' and 'q'
ZeroLetterScanned ==
    /\ LiteralScanned
    /\ CharAt(lexer.start) = "0"
    /\ isLetter(CharAt(lexer.start + 1))
    /\ CharAt(lexer.start + 1) \notin {"c", "q"}

\* C26: a '0' followed by a letter other than 'c' and 'q' is accepted with the
\* format of the letter if the letter is one of b, h, o, d, and is an ERROR
\* token only if it is not.
C26_ZeroWithFormatIsAccepted ==
    LET k == lexer.start
        letter == CharAt(k + 1)
    IN  ZeroLetterScanned =>
            IF letter \in {"b", "h", "o", "d"}
            THEN ReturnedSpan(LiteralKind(FALSE, FALSE, letter), k, k + 2)
            ELSE status = "running" /\ Len(tokens) > 0 /\ Last(tokens).type = "ERROR"

\* the text of the span of a token: the characters of the source from start
\* on, or the message for an ERROR token, whose span is its message
SpanOf(t) ==
    IF t.type = "ERROR" THEN <<t.message>>
    ELSE SubSeq(source, t.start + 1, t.start + t.length)

\* the spans of the tokens ts in order, the DEDENT tokens left out
RECURSIVE SpanText(_)
SpanText(ts) ==
    IF ts = <<>> THEN <<>>
    ELSE IF Head(ts).type = "DEDENT" THEN SpanText(Tail(ts))
    ELSE SpanOf(Head(ts)) \o SpanText(Tail(ts))

\* C27: the spans of the tokens returned before EOF, in order and without the
\* DEDENT tokens, give back the source text.
C27_SpansRebuildSource ==
    EofReturned => SpanText(SubSeq(tokens, 1, FirstEof - 1)) = source

\* C28: newParser called with a lexer and a program returns to its caller a
\* parser whose current slot holds the first token of the lexer, lexToken
\* having been called once, and whose previous and next slots hold the
\* placeholder ERROR token; the failure path of newParser is taken only for a
\* NULL argument or a failed allocation.
C28_NewParserSeedsTheWindow ==
    parser.called =>
        /\ (parser.lexer_given /\ parser.program_given /\ parser.allocated)
           => /\ status = "running"
              /\ parser.returned
              /\ Len(tokens) = 1
              /\ parser.current = tokens[1]
              /\ parser.previous = invalidToken
              /\ parser.next = invalidToken
        /\ parser.failed
           => ~(parser.lexer_given /\ parser.program_given /\ parser.allocated)

\* C29: peekBack returns the sentinel NUL if and only if the read position is
\* offset 0; at every other read position it returns the character before
\* the read position, whatever the current character is.
C29_PeekBackSentinelOnlyAtStart ==
    lexer.current <= Len(source) =>
        /\ peekBack(lexer) = NUL <=> lexer.current = 0
        /\ lexer.current > 0 => peekBack(lexer) = CharAt(lexer.current - 1)

\* the text handed over came back from the two transforms in a row
RoundTripDone(kind) == fqn.kind = kind /\ fqn.steps = 2

\* a path with every backslash replaced by a front slash
WithFrontSlashes(path) ==
    [i \in 1..Len(path) |-> IF path[i] = "\\" THEN "/" ELSE path[i]]

\* C30: the transforms are inverses up to the separator: a name of letters,
\* underscores and dots comes back unchanged from pathFromName and then
\* nameFromPath; a path of letters, underscores and separators comes back from
\* nameFromPath and then pathFromName with each backslash replaced by a front
\* slash, so unchanged if and only if it holds no backslash.
C30_InversesUpToSeparator ==
    /\ (RoundTripDone("name") /\ isValidName(fqn.input)) => fqn.text = fqn.input
    /\ (RoundTripDone("path") /\ isValidPath(fqn.input))
       => fqn.text = WithFrontSlashes(fqn.input)

\* a path with a backslash has come back with a front slash in its place
C30_Witness ==
    /\ RoundTripDone("path")
    /\ fqn.input = <<"a", "\\", "B">>
    /\ fqn.text = <<"a", "/", "B">>

\* C30 as stated: every path of letters, underscores and separators, and every
\* name of letters, underscores and dots, comes back unchanged
C30_TransformsAreInverses ==
    /\ (RoundTripDone("name") /\ isValidName(fqn.input)) => fqn.text = fqn.input
    /\ (RoundTripDone("path") /\ isValidPath(fqn.input)) => fqn.text = fqn.input

\* C31: tokenTypeToString gives for every enumerator AVL_X the name "X", and
\* every kind that the lexer names, NO_INDENT included, is an enumerator.
C31_KindsHaveTheirOwnName ==
    /\ render.type # "" => render.type \in Enumerators
    /\ render.done => render.text = render.type

\* the index of the first token scanned behind the leading run of the line at c
FirstTokenOfLine(c) ==
    Least({ i \in 1..Len(tokens) :
              /\ tokens[i].type \notin {"DEDENT", "ERROR"}
              /\ tokens[i].start >= c + LineWidth(c) })

\* the DEDENT tokens returned on the line at c before the first token of it
DedentsBeforeLine(c) ==
    Cardinality({ i \in 1..(FirstTokenOfLine(c) - 1) :
                    tokens[i].type = "DEDENT" /\ tokens[i].line = LineNumber(c) })

\* C32: a line that starts at column 0 while k > 0 indented blocks are open is
\* answered with k DEDENT tokens before its first token, whatever its first
\* character is.
C32_ColumnZeroClosesEveryBlock ==
    \A c \in LineStarts :
        ( /\ WellFormedSource
          /\ LineWidth(c) = 0
          /\ ~LineBlank(c)
          /\ Len(OpenBlocks(c)) > 1
          /\ LineScanned(c) )
        => DedentsBeforeLine(c) = Len(OpenBlocks(c)) - 1

\* the last call of lexToken returned a token of one of these kinds
LastReturned(types) ==
    status = "running" /\ Len(tokens) > 0 /\ Last(tokens).type \in types

C34_ReadPositionWithinSource ==
    status # "crashed" /\ lexer.current <= Len(source)

\* C35: in every prefix of the returned tokens there are at most as many
\* DEDENT tokens as INDENT tokens.
C35_NoDedentWithoutIndent ==
    \A n \in 1..Len(tokens) :
        Count(SubSeq(tokens, 1, n), "DEDENT") <= Count(SubSeq(tokens, 1, n), "INDENT")

\* the stack holds what was pushed and not popped, in the cells below top
StackHolds(object, held) ==
    /\ object.top = Len(held)
    /\ object.top <= object.size
    /\ \A i \in 1..Len(held) : object.elements[i - 1] = held[i]

\* C37: a push on a stack that is not NULL and has free room returns to the
\* caller; top and pop return the element pushed last; after every call the
\* stack holds the elements pushed and not popped, so after push(x) and pop
\* it holds what it held before; the index top stays within 0..size.
C37_StackIsLifo ==
    (stack.call.op # "new" /\ stack.call.given) =>
        /\ stack.object.top <= stack.object.size
        /\ (stack.call.op = "push"
              /\ stack.before.object.top < stack.before.object.size)
             => /\ status = "running"
                /\ StackHolds(stack.object, stack.held)
        /\ (stack.call.op \in {"top", "pop"} /\ Len(stack.before.held) > 0)
             => /\ status = "running"
                /\ stack.call.returned = stack.before.held[Len(stack.before.held)]
                /\ StackHolds(stack.object, stack.held)

\* C38: after vectorPushback calls only, on a vector of any initial capacity,
\* the process runs, size <= capacity, vectorSize is the number of elements
\* pushed and the last write went to an index below capacity.
C38_PushbackGrowsTheVector ==
    (vector.call.op = "pushback" /\ vector.call.given /\ vector.pops = 0) =>
        /\ status = "running"
        /\ vector.object.size <= vector.object.capacity
        /\ vectorSize(vector.object) = vector.pushes
        /\ vector.call.written < vector.object.capacity

\* C39: vectorPopback on a vector that is not empty returns the element that
\* vectorPushback added last, decrements size by one and leaves the elements
\* at the indices below size - 1 unchanged.
C39_PopbackReturnsTheLastElement ==
    ( /\ vector.call.op = "popback"
      /\ vector.call.given
      /\ vector.before.object.size > 0
      /\ Len(vector.before.held) > 0 ) =>
        /\ status = "running"
        /\ vector.call.returned = vector.before.held[Len(vector.before.held)]
        /\ vector.object.size = vector.before.object.size - 1
        /\ \A i \in 0..(vector.before.object.size - 2) :
              i < vector.object.capacity
                  => vector.object.elements[i] = vector.before.object.elements[i]

\* the offset behind the last '\n' in front of offset k of the source, 0 when
\* there is none
AfterLastNewline(k) ==
    LET ends == { j \in 1..k : CharAt(j - 1) = "\n" }
    IN  IF ends = {} THEN 0 ELSE CHOOSE j \in ends : \A i \in ends : i <= j

\* C36: at every return from lexToken, column - 1 is the number of characters
\* consumed since the most recently consumed '\n', or since the start of the
\* source, also when that newline was consumed inside a block comment.
C36_ColumnCountsFromLastNewline ==
    (status = "running" /\ lexer.current <= Len(source))
        => lexer.column - 1 = lexer.current - AfterLastNewline(lexer.current)

\* lines of a name behind 0..MaxBlockIndent tabulations, behind a blank first
\* line
BlockSources(n) ==
    { <<"\n">> \o t :
        t \in Texts({ Run("\t", w) \o <<"x", "\n">> : w \in 0..MaxBlockIndent }, n) }

InitBlocks == InitWith(BlockSources(MaxBlockLines))

SpecBlocks == InitBlocks /\ [][Next]_vars

\* C40: at every return from lexToken dedentation_count is at most
\* indentation_count, and no call has decremented an indentation_count of 0,
\* which wraps the unsigned counter around to its largest value.
C40_IndentationCountersInRange ==
    status = "running" =>
        /\ lexer.dedentation_count <= lexer.indentation_count
        /\ ~(prev.indentation_count = 0 /\ lexer.indentation_count = SizeMod - 1)

====
